---- MODULE Spec2Model ----
(***************************************************************************)
(* Verification model of the CSP solvers of                                *)
(* src/001_Bus_Graf/001_Planificacion/003_Sati_de_Restr:                   *)
(* backtracking (plain and MRV/LCV), forward checking, AC-3 / MAC,         *)
(* conflict-directed backjumping, min-conflicts and cutset conditioning.   *)
(* A CSP object is the record csp; every solver is a step machine over an  *)
(* explicit call stack (pila), one action per loop iteration or return.    *)
(***************************************************************************)
EXTENDS Integers, Sequences, FiniteSets, TLC

(* ---------------- bounds of the explored inputs ---------------- *)
NumVars == 3        \* CSPs have 0..NumVars variables, named 1..n
MaxVal == 2         \* domain values are 0..MaxVal-1
MaxPasos == 2       \* max_pasos of min_conflicts ranges over 0..MaxPasos

Predicados == {"neq", "eq", "lt", "gt"}

(* ---------------- generic helpers ---------------- *)
Rango(s) == {s[i] : i \in 1 .. Len(s)}

RECURSIVE SeqDeConj(_)
\* some enumeration of a finite set of integers, in increasing order
SeqDeConj(S) ==
    IF S = {} THEN << >>
    ELSE LET m == CHOOSE x \in S : \A y \in S : x <= y
         IN <<m>> \o SeqDeConj(S \ {m})

Permutaciones(S) ==
    {p \in [1 .. Cardinality(S) -> S] : \A i, j \in 1 .. Cardinality(S) : p[i] = p[j] => i = j}

RECURSIVE SumarSeq(_)
SumarSeq(s) == IF s = << >> THEN 0 ELSE s[1] + SumarSeq(Tail(s))

\* Python's min(s, key=Clave): the first element of s with the least key
MinPorClave(s, Clave(_)) ==
    LET k == CHOOSE i \in 1 .. Len(s) :
                 /\ \A j \in 1 .. Len(s) : Clave(s[i]) <= Clave(s[j])
                 /\ \A j \in 1 .. (i - 1) : Clave(s[j]) > Clave(s[i])
    IN s[k]

\* Python's sorted(s, key=Clave): ascending and stable
OrdenadoPorClave(s, Clave(_)) ==
    LET pos(i) == Cardinality({j \in 1 .. Len(s) :
                      Clave(s[j]) < Clave(s[i]) \/ (Clave(s[j]) = Clave(s[i]) /\ j <= i)})
    IN [k \in 1 .. Len(s) |-> s[CHOOSE i \in 1 .. Len(s) : pos(i) = k]]

(* dict helpers: a Python dict is a function whose DOMAIN is its key set *)
DictVacio == << >>
Poner(d, k, x) == [u \in (DOMAIN d) \cup {k} |-> IF u = k THEN x ELSE d[u]]
Quitar(d, k) == [u \in (DOMAIN d) \ {k} |-> d[u]]

(* ---------------- the constraint predicates of the explored CSPs -------- *)
\* the lambda stored under a key of csp.restricciones, applied to *valores; r is the
\* dict entry [vars, pred, dif]: pred names the lambda, dif is the column distance
\* captured by the lambdas of ProblemaReinas
Abs(x) == IF x < 0 THEN -x ELSE x
Cumple(r, vals) ==
    CASE r.pred = "neq" -> vals[1] # vals[2]
      [] r.pred = "eq"  -> vals[1] = vals[2]
      [] r.pred = "lt"  -> vals[1] < vals[2]
      [] r.pred = "gt"  -> vals[1] > vals[2]
      [] r.pred = "suma" -> vals[1] + vals[2] = vals[3]
      [] r.pred = "pos" -> vals[1] > 0
      [] r.pred = "reinas" -> vals[1] # vals[2] /\ Abs(vals[1] - vals[2]) # r.dif

(* ---------------- CSP ---------------- *)
\* CSP._calcular_vecinos
CalcularVecinos(variables, restricciones) ==
    [var \in Rango(variables) |->
        {v2 \in Rango(variables) :
            v2 # var /\ \E k \in 1 .. Len(restricciones) :
                var \in Rango(restricciones[k].vars) /\ v2 \in Rango(restricciones[k].vars)}]

\* CSP.__init__ : no validation, the arguments are stored as given
NuevoCSP(variables, dominios, restricciones) ==
    [variables |-> variables, dominios |-> dominios, restricciones |-> restricciones,
     vecinos |-> CalcularVecinos(variables, restricciones)]

\* es_consistente returning the verdict of the first applicable restriction
EsConsistente_PrimeraRestriccion(c, var, valor, asignacion) ==
    LET asignacion_temp == Poner(asignacion, var, valor)
        aplicables == {k \in 1 .. Len(c.restricciones) :
                          /\ var \in Rango(c.restricciones[k].vars)
                          /\ Rango(c.restricciones[k].vars) \subseteq DOMAIN asignacion_temp}
    IN IF aplicables = {}
          THEN TRUE
          ELSE LET r == c.restricciones[CHOOSE k \in aplicables : \A j \in aplicables : k <= j]
               IN Cumple(r, [i \in 1 .. Len(r.vars) |-> asignacion_temp[r.vars[i]]])

\* CSP.es_consistente
EsConsistente(c, var, valor, asignacion) ==
    LET asignacion_temp == Poner(asignacion, var, valor)
    IN \A k \in 1 .. Len(c.restricciones) :
          LET r == c.restricciones[k]
          IN (var \in Rango(r.vars) /\ Rango(r.vars) \subseteq DOMAIN asignacion_temp)
                => Cumple(r, [i \in 1 .. Len(r.vars) |-> asignacion_temp[r.vars[i]]])

\* CSP.obtener_valores_legales
ObtenerValoresLegales(c, var, asignacion) ==
    LET Legal(valor) == EsConsistente(c, var, valor, asignacion)
    IN SelectSeq(c.dominios[var], Legal)

(* ---------------- the explored CSP instances ---------------- *)
VarsHasta(n) == [i \in 1 .. n |-> i]
DominioPleno == [i \in 1 .. MaxVal |-> i - 1]
DominioInvertido == [i \in 1 .. MaxVal |-> MaxVal - i]
DominiosAlternativos == {<< >>, <<MaxVal - 1>>, DominioInvertido}

\* the pairs (i, j), i < j <= n, in lexicographic order
ParesSeq(n) ==
    LET ord == SeqDeConj({i * (n + 1) + j : i, j \in 1 .. n} \cap
                         {c \in 0 .. (n + 1) * (n + 1) : (c \div (n + 1)) < (c % (n + 1))})
    IN [k \in 1 .. Len(ord) |-> <<ord[k] \div (n + 1), ord[k] % (n + 1)>>]

\* a dict of binary restrictions keyed (i, j), i < j, inserted in lexicographic order
RestriccionesBase(n, eleccion) ==
    LET ps == ParesSeq(n)
        todas == [k \in 1 .. Len(ps) |-> [vars |-> ps[k], pred |-> eleccion[ps[k]], dif |-> 0]]
        Puesta(r) == r.pred # "sin"
    IN SelectSeq(todas, Puesta)

\* one more entry of the dict: a second key for the pair (1, 2), a unary key on the
\* first or on the last variable, or a ternary key
RestriccionesExtra(n) ==
    {<< >>}
    \cup (IF n >= 2 THEN {<<[vars |-> <<2, 1>>, pred |-> p, dif |-> 0]>> : p \in Predicados} ELSE {})
    \cup (IF n >= 1 THEN {<<[vars |-> <<1>>, pred |-> "pos", dif |-> 0]>>} ELSE {})
    \cup (IF n >= 2 THEN {<<[vars |-> <<n>>, pred |-> "pos", dif |-> 0]>>} ELSE {})
    \cup (IF n >= 3 THEN {<<[vars |-> <<1, 2, 3>>, pred |-> "suma", dif |-> 0]>>} ELSE {})

\* the domains: every variable has the full domain, or one variable has another one
DominiosDe(n) ==
    {[v \in 1 .. n |-> DominioPleno]}
    \cup {[v \in 1 .. n |-> IF v = w THEN d ELSE DominioPleno] :
             w \in 1 .. n, d \in DominiosAlternativos}

InstanciasDe(n) ==
    LET bases == {RestriccionesBase(n, e) :
                     e \in [Rango(ParesSeq(n)) -> Predicados \cup {"sin"}]}
    IN {NuevoCSP(VarsHasta(n), d, b) : d \in DominiosDe(n), b \in bases}
       \cup {NuevoCSP(VarsHasta(n), [v \in 1 .. n |-> DominioPleno], b \o x) :
                b \in bases, x \in RestriccionesExtra(n)}

\* ProblemaReinas(n): Q0 .. Q(n-1) are the variables 1 .. n
ProblemaReinas(n) ==
    LET ps == ParesSeq(n)
    IN NuevoCSP(VarsHasta(n), [v \in 1 .. n |-> [i \in 1 .. n |-> i - 1]],
                [k \in 1 .. Len(ps) |->
                    [vars |-> ps[k], pred |-> "reinas", dif |-> Abs(ps[k][1] - ps[k][2])]])

\* ProblemaColoracionGrafo(nodos, aristas, colores): the nodes are 1 .. n, the colours
\* 0 .. k-1, one restriction c1 != c2 per edge, in the order of the list aristas
ProblemaColoracionGrafo(n, aristas, k) ==
    NuevoCSP(VarsHasta(n), [v \in 1 .. n |-> [i \in 1 .. k |-> i - 1]],
             [j \in 1 .. Len(aristas) |-> [vars |-> aristas[j], pred |-> "neq", dif |-> 0]])

\* three mutually adjacent nodes, two colours
Triangulo == ProblemaColoracionGrafo(3, <<<<1, 2>>, <<1, 3>>, <<2, 3>>>>, 2)

\* the board size of the examples: ProblemaReinas(4)
NReinas == 4

Instancias ==
    UNION {InstanciasDe(n) : n \in 0 .. NumVars} \cup {ProblemaReinas(NReinas), Triangulo}

\* every key of csp.restricciones is a pair (required by CSP._calcular_arcos)
EsBinario(c) == \A k \in 1 .. Len(c.restricciones) : Len(c.restricciones[k].vars) = 2

(* ======================= state ======================= *)
VARIABLES
    csp,            \* the CSP object handed to the solvers (csp.dominios is mutable)
    solver,         \* the entry point that is running, "ninguno" between calls
    pc,             \* position of the running call
    asignacion,     \* the assignment dict shared by the recursive calls
    pila,           \* the frames of the recursive search calls, outermost first
    resultado,      \* what the entry point returned: [tipo, asig]
    retrocesos,     \* self.retrocesos
    dom0,           \* csp.dominios when the running call began
    conjuntos_conflicto,  \* backjumping: the dict variable -> conflict set
    ret,            \* backjumping: the value the last finished _backjump call returned
    saltos,         \* backjumping: self.saltos
    cola,           \* ac3: the deque of arcs
    dominios,       \* ac3: its local dict of domains (the second returned value)
    exito,          \* ac3: the first returned value, "pendiente" while it runs
    revisiones,     \* ac3: revisiones, the number of arcs popped so far
    paso,           \* min_conflicts: the loop counter
    max_pasos,      \* min_conflicts: the argument
    cambios,        \* min_conflicts_con_estadisticas: cambios
    historial_conflictos,  \* min_conflicts_con_estadisticas: historial_conflictos
    cutset,         \* cutset conditioning: the cutset
    variables_restantes,   \* cutset conditioning: the variables outside the cutset
    combinaciones,  \* acondicionamiento_cutset: the list of cutset assignments
    idx,            \* acondicionamiento_cutset: position in combinaciones
    previo          \* what the caller kept of the call before this one: [solver, tipo]

base == <<solver, pc, asignacion, pila, resultado, retrocesos, dom0>>
bjVars == <<conjuntos_conflicto, ret, saltos>>
acVars == <<cola, dominios, exito, revisiones>>
mcVars == <<paso, max_pasos, cambios, historial_conflictos>>
corteVars == <<cutset, variables_restantes, combinaciones, idx>>
locales == <<bjVars, acVars, mcVars, corteVars>>
noBJ == <<acVars, mcVars, corteVars>>
noAC == <<bjVars, mcVars, corteVars>>
noMC == <<bjVars, acVars, corteVars>>
noCorte == <<bjVars, acVars, mcVars>>
vars == <<csp, base, locales, previo>>

\* a returned value: a dict (an assignment), None, or what backjumping may pass up
Pendiente == [tipo |-> "pendiente", asig |-> DictVacio, conj |-> {}]
ResNone == [tipo |-> "None", asig |-> DictVacio, conj |-> {}]
ResDict(a) == [tipo |-> "dict", asig |-> a, conj |-> {}]
ResSet(S) == [tipo |-> "set", asig |-> DictVacio, conj |-> S]

\* the value of ret while no _backjump call has returned a failure
SinRetorno == [tipo |-> "nada", conj |-> {}, de |-> 0]

\* the value of previo before any call has finished
SinPrevio == [solver |-> "ninguno", tipo |-> "pendiente"]

Cima == pila[Len(pila)]
SinCima == SubSeq(pila, 1, Len(pila) - 1)
ConCima(m) == [pila EXCEPT ![Len(pila)] = m]
Completa(a) == Cardinality(DOMAIN a) = Len(csp.variables)
NoAsignadas(a) ==
    LET Libre(v) == v \notin DOMAIN a
    IN SelectSeq(csp.variables, Libre)

Init ==
    /\ csp \in Instancias
    /\ solver = "ninguno"
    /\ pc = "inactivo"
    /\ asignacion = DictVacio
    /\ pila = << >>
    /\ resultado = Pendiente
    /\ retrocesos = 0
    /\ dom0 = csp.dominios
    /\ conjuntos_conflicto = DictVacio
    /\ ret = SinRetorno
    /\ saltos = 0
    /\ cola = << >>
    /\ dominios = DictVacio
    /\ exito = "pendiente"
    /\ revisiones = 0
    /\ paso = 0
    /\ max_pasos = 0
    /\ cambios = 0
    /\ historial_conflictos = << >>
    /\ cutset = {}
    /\ variables_restantes = {}
    /\ combinaciones = << >>
    /\ idx = 0
    /\ previo = SinPrevio

(* ======================= SolucionadorBacktracking ======================= *)
\* SolucionadorBacktracking._seleccionar_variable_no_asignada
SeleccionarVariableNoAsignada(a) == NoAsignadas(a)[1]

\* SolucionadorBacktracking._ordenar_valores_dominio
OrdenarValoresDominio(var, a) == csp.dominios[var]

\* the frame of a call of SolucionadorBacktracking._backtrack that passed the base case
MarcoBT(a) ==
    LET var == SeleccionarVariableNoAsignada(a)
    IN [var |-> var, valores |-> OrdenarValoresDominio(var, a), i |-> 1]

\* SolucionadorBacktracking.resolver, up to the first loop of _backtrack({})
BT_Resolver ==
    /\ pc = "inactivo"
    /\ solver' = "BT"
    /\ retrocesos' = 0
    /\ dom0' = csp.dominios
    /\ asignacion' = DictVacio
    /\ IF Completa(DictVacio)
          THEN /\ resultado' = ResDict(DictVacio)
               /\ pila' = << >>
               /\ pc' = "terminado"
          ELSE /\ resultado' = Pendiente
               /\ pila' = <<MarcoBT(DictVacio)>>
               /\ pc' = "bucle"
    /\ UNCHANGED <<previo, csp, locales>>

\* one iteration of the for loop of _backtrack, up to the recursive call's first loop
BT_Probar ==
    /\ solver = "BT" /\ pc = "bucle"
    /\ Cima.i <= Len(Cima.valores)
    /\ LET var == Cima.var
           valor == Cima.valores[Cima.i]
       IN IF EsConsistente(csp, var, valor, asignacion)
             THEN LET a2 == Poner(asignacion, var, valor)
                  IN /\ asignacion' = a2
                     /\ IF Completa(a2)
                           THEN /\ resultado' = ResDict(a2)
                                /\ pila' = << >>
                                /\ pc' = "terminado"
                           ELSE /\ pila' = Append(pila, MarcoBT(a2))
                                /\ UNCHANGED <<resultado, pc>>
             ELSE /\ pila' = ConCima([Cima EXCEPT !.i = @ + 1])
                  /\ UNCHANGED <<asignacion, resultado, pc>>
    /\ UNCHANGED <<previo, csp, solver, retrocesos, dom0, locales>>

\* the loop of _backtrack is exhausted: return None
BT_Retornar ==
    /\ solver = "BT" /\ pc = "bucle"
    /\ Cima.i > Len(Cima.valores)
    /\ pila' = SinCima
    /\ IF Len(pila) = 1
          THEN resultado' = ResNone /\ pc' = "terminado"
          ELSE pc' = "retorno" /\ UNCHANGED resultado
    /\ UNCHANGED <<previo, csp, solver, asignacion, retrocesos, dom0, locales>>

\* the recursive call returned None and the value of var is left in asignacion
BT_Retroceder_SinBorrar ==
    /\ solver = "BT" /\ pc = "retorno"
    /\ retrocesos' = retrocesos + 1
    /\ pila' = ConCima([Cima EXCEPT !.i = @ + 1])
    /\ pc' = "bucle"
    /\ UNCHANGED <<previo, csp, solver, asignacion, resultado, dom0, locales>>

\* the recursive call returned None: del asignacion[var]; retrocesos += 1
BT_Retroceder ==
    /\ solver = "BT" /\ pc = "retorno"
    /\ asignacion' = Quitar(asignacion, Cima.var)
    /\ retrocesos' = retrocesos + 1
    /\ pila' = ConCima([Cima EXCEPT !.i = @ + 1])
    /\ pc' = "bucle"
    /\ UNCHANGED <<previo, csp, solver, resultado, dom0, locales>>

(* ======================= SolucionadorBacktrackingMejorado ======================= *)
\* SolucionadorBacktrackingMejorado._seleccionar_variable_mrv
SeleccionarVariableMRV_Mejorado(a) ==
    LET contar_valores_legales(var) == Len(ObtenerValoresLegales(csp, var, a))
    IN MinPorClave(NoAsignadas(a), contar_valores_legales)

\* SolucionadorBacktrackingMejorado._ordenar_valores_lcv
OrdenarValoresLCV(var, a) ==
    LET valores_legales == ObtenerValoresLegales(csp, var, a)
        contar_conflictos(valor) ==
            LET asignacion_temp == Poner(a, var, valor)
                vecinos == SeqDeConj(csp.vecinos[var] \ DOMAIN a)
            IN SumarSeq([k \in 1 .. Len(vecinos) |->
                   Len(ObtenerValoresLegales(csp, vecinos[k], a))
                   - Len(ObtenerValoresLegales(csp, vecinos[k], asignacion_temp))])
    IN OrdenadoPorClave(valores_legales, contar_conflictos)

\* the frame of a call of SolucionadorBacktrackingMejorado._backtrack past the base case
MarcoMejorado(a) ==
    LET var == SeleccionarVariableMRV_Mejorado(a)
    IN [var |-> var, valores |-> OrdenarValoresLCV(var, a), i |-> 1]

\* SolucionadorBacktrackingMejorado.resolver
Mejorado_Resolver ==
    /\ pc = "inactivo"
    /\ solver' = "Mejorado"
    /\ retrocesos' = 0
    /\ dom0' = csp.dominios
    /\ asignacion' = DictVacio
    /\ IF Completa(DictVacio)
          THEN /\ resultado' = ResDict(DictVacio)
               /\ pila' = << >>
               /\ pc' = "terminado"
          ELSE /\ resultado' = Pendiente
               /\ pila' = <<MarcoMejorado(DictVacio)>>
               /\ pc' = "bucle"
    /\ UNCHANGED <<previo, csp, locales>>

\* one iteration of the for loop of SolucionadorBacktrackingMejorado._backtrack
Mejorado_Probar ==
    /\ solver = "Mejorado" /\ pc = "bucle"
    /\ Cima.i <= Len(Cima.valores)
    /\ LET var == Cima.var
           valor == Cima.valores[Cima.i]
       IN IF EsConsistente(csp, var, valor, asignacion)
             THEN LET a2 == Poner(asignacion, var, valor)
                  IN /\ asignacion' = a2
                     /\ IF Completa(a2)
                           THEN /\ resultado' = ResDict(a2)
                                /\ pila' = << >>
                                /\ pc' = "terminado"
                           ELSE /\ pila' = Append(pila, MarcoMejorado(a2))
                                /\ UNCHANGED <<resultado, pc>>
             ELSE /\ pila' = ConCima([Cima EXCEPT !.i = @ + 1])
                  /\ UNCHANGED <<asignacion, resultado, pc>>
    /\ UNCHANGED <<previo, csp, solver, retrocesos, dom0, locales>>

\* the loop is exhausted: return None
Mejorado_Retornar ==
    /\ solver = "Mejorado" /\ pc = "bucle"
    /\ Cima.i > Len(Cima.valores)
    /\ pila' = SinCima
    /\ IF Len(pila) = 1
          THEN resultado' = ResNone /\ pc' = "terminado"
          ELSE pc' = "retorno" /\ UNCHANGED resultado
    /\ UNCHANGED <<previo, csp, solver, asignacion, retrocesos, dom0, locales>>

\* the recursive call returned None: del asignacion[var]; retrocesos += 1
Mejorado_Retroceder ==
    /\ solver = "Mejorado" /\ pc = "retorno"
    /\ asignacion' = Quitar(asignacion, Cima.var)
    /\ retrocesos' = retrocesos + 1
    /\ pila' = ConCima([Cima EXCEPT !.i = @ + 1])
    /\ pc' = "bucle"
    /\ UNCHANGED <<previo, csp, solver, resultado, dom0, locales>>

(* ======================= SolucionadorForwardChecking ======================= *)
\* SolucionadorForwardChecking._seleccionar_variable_mrv
SeleccionarVariableMRV_FC(a, doms) ==
    LET tam(v) == Len(doms[v])
    IN MinPorClave(NoAsignadas(a), tam)

\* forward checking that takes every restriction for an inequality: a neighbour loses
\* the value just assigned, and only that one
ForwardCheck_SoloDistintos(var, valor, a, doms) ==
    LET Valido(vecino) ==
            LET ok(valor_vecino) == valor_vecino # valor
            IN SelectSeq(doms[vecino], ok)
        dominios_nuevos ==
            [v \in DOMAIN doms |->
                IF v \in csp.vecinos[var] /\ v \notin DOMAIN a
                   THEN Valido(v) ELSE doms[v]]
    IN [dominios |-> dominios_nuevos,
        exito |-> \A v \in csp.vecinos[var] : v \notin DOMAIN a => dominios_nuevos[v] # << >>]

\* forward checking that prunes nothing
ForwardCheck_SinPoda(var, valor, a, doms) == [dominios |-> doms, exito |-> TRUE]

\* SolucionadorForwardChecking._forward_check; a is the assignment with var = valor in it.
\* The neighbours are visited in the iteration order of a Python set; the pruning of
\* one neighbour does not depend on the others, and on a wipe-out the caller drops
\* the partly pruned copy, so the copy is given here with every neighbour pruned.
ForwardCheck(var, valor, a, doms) ==
    LET Valido(vecino) ==
            LET ok(valor_vecino) ==
                    EsConsistente(csp, vecino, valor_vecino, Poner(a, vecino, valor_vecino))
            IN SelectSeq(doms[vecino], ok)
        dominios_nuevos ==
            [v \in DOMAIN doms |->
                IF v \in csp.vecinos[var] /\ v \notin DOMAIN a
                   THEN Valido(v) ELSE doms[v]]
    IN [dominios |-> dominios_nuevos,
        exito |-> \A v \in csp.vecinos[var] : v \notin DOMAIN a => dominios_nuevos[v] # << >>]

\* _forward_check pruning the caller's dict itself
DominiosDelMarcoTrasPoda_SinCopia(doms, podados) == podados

\* the dict dominios of the calling frame after _forward_check, which prunes
\* dominios_nuevos = deepcopy(dominios) and rebinds the entries of that copy only
DominiosDelMarcoTrasPoda(doms, podados) == doms

\* the frame of a call of SolucionadorForwardChecking._backtrack past the base case
MarcoFC(a, doms) ==
    LET var == SeleccionarVariableMRV_FC(a, doms)
    IN [var |-> var, valores |-> doms[var], i |-> 1, dominios |-> doms]

\* SolucionadorForwardChecking.resolver
FC_Resolver ==
    /\ pc = "inactivo"
    /\ solver' = "FC"
    /\ retrocesos' = 0
    /\ dom0' = csp.dominios
    /\ asignacion' = DictVacio
    /\ LET dominios_actuales == [var \in Rango(csp.variables) |-> csp.dominios[var]]
       IN IF Completa(DictVacio)
             THEN /\ resultado' = ResDict(DictVacio)
                  /\ pila' = << >>
                  /\ pc' = "terminado"
             ELSE /\ resultado' = Pendiente
                  /\ pila' = <<MarcoFC(DictVacio, dominios_actuales)>>
                  /\ pc' = "bucle"
    /\ UNCHANGED <<previo, csp, locales>>

\* one iteration of the for loop of SolucionadorForwardChecking._backtrack
FC_Probar ==
    /\ solver = "FC" /\ pc = "bucle"
    /\ Cima.i <= Len(Cima.valores)
    /\ LET var == Cima.var
           valor == Cima.valores[Cima.i]
       IN IF EsConsistente(csp, var, valor, asignacion)
             THEN LET a2 == Poner(asignacion, var, valor)
                      fc == ForwardCheck(var, valor, a2, Cima.dominios)
                      tras == [Cima EXCEPT !.dominios = DominiosDelMarcoTrasPoda(@, fc.dominios)]
                  IN /\ asignacion' = a2
                     /\ IF fc.exito
                           THEN IF Completa(a2)
                                   THEN /\ resultado' = ResDict(a2)
                                        /\ pila' = << >>
                                        /\ pc' = "terminado"
                                   ELSE /\ pila' = Append(ConCima(tras), MarcoFC(a2, fc.dominios))
                                        /\ UNCHANGED <<resultado, pc>>
                           ELSE /\ pc' = "retorno"
                                /\ pila' = ConCima(tras)
                                /\ UNCHANGED resultado
             ELSE /\ pila' = ConCima([Cima EXCEPT !.i = @ + 1])
                  /\ UNCHANGED <<asignacion, resultado, pc>>
    /\ UNCHANGED <<previo, csp, solver, retrocesos, dom0, locales>>

\* the loop is exhausted: return None
FC_Retornar ==
    /\ solver = "FC" /\ pc = "bucle"
    /\ Cima.i > Len(Cima.valores)
    /\ pila' = SinCima
    /\ IF Len(pila) = 1
          THEN resultado' = ResNone /\ pc' = "terminado"
          ELSE pc' = "retorno" /\ UNCHANGED resultado
    /\ UNCHANGED <<previo, csp, solver, asignacion, retrocesos, dom0, locales>>

\* after a wipe-out or a failed recursive call: del asignacion[var]; retrocesos += 1
FC_Retroceder ==
    /\ solver = "FC" /\ pc = "retorno"
    /\ asignacion' = Quitar(asignacion, Cima.var)
    /\ retrocesos' = retrocesos + 1
    /\ pila' = ConCima([Cima EXCEPT !.i = @ + 1])
    /\ pc' = "bucle"
    /\ UNCHANGED <<previo, csp, solver, resultado, dom0, locales>>

(* ======================= SolucionadorBackjumping ======================= *)
\* obtener_variables_conflicto without the test `v != var and v in asignacion`
ObtenerVariablesConflicto_SinFiltro(c, var, valor, a) ==
    LET asignacion_temp == Poner(a, var, valor)
        Violada(r) ==
            /\ var \in Rango(r.vars)
            /\ Rango(r.vars) \subseteq DOMAIN asignacion_temp
            /\ ~Cumple(r, [i \in 1 .. Len(r.vars) |-> asignacion_temp[r.vars[i]]])
    IN UNION {Rango(c.restricciones[k].vars) :
                 k \in {j \in 1 .. Len(c.restricciones) : Violada(c.restricciones[j])}}

\* CSP.obtener_variables_conflicto
ObtenerVariablesConflicto(c, var, valor, a) ==
    LET asignacion_temp == Poner(a, var, valor)
        Violada(r) ==
            /\ var \in Rango(r.vars)
            /\ Rango(r.vars) \subseteq DOMAIN asignacion_temp
            /\ ~Cumple(r, [i \in 1 .. Len(r.vars) |-> asignacion_temp[r.vars[i]]])
    IN UNION {{v \in Rango(c.restricciones[k].vars) : v # var /\ v \in DOMAIN a} :
                 k \in {j \in 1 .. Len(c.restricciones) : Violada(c.restricciones[j])}}

\* the conflict set overwritten instead of extended
AgregarConflictos_Reemplaza(previos, conflictos) == conflictos

\* conjuntos_conflicto[var].union(conflictos), for a value that is not consistent
AgregarConflictos(previos, conflictos) == previos \cup conflictos

\* SolucionadorBackjumping._seleccionar_variable
SeleccionarVariable(a) == NoAsignadas(a)[1]

\* the frame of a call of SolucionadorBackjumping._backjump past the base case
MarcoBJ(a) ==
    LET var == SeleccionarVariable(a)
    IN [var |-> var, valores |-> csp.dominios[var], i |-> 1]

\* SolucionadorBackjumping.resolver, up to the first loop of _backjump({}, ..., 0)
BJ_Resolver ==
    /\ pc = "inactivo"
    /\ solver' = "BJ"
    /\ retrocesos' = 0
    /\ dom0' = csp.dominios
    /\ asignacion' = DictVacio
    /\ ret' = SinRetorno
    /\ saltos' = 0
    /\ LET cc == [var \in Rango(csp.variables) |-> {}]
       IN IF Completa(DictVacio)
             THEN /\ resultado' = ResDict(DictVacio)
                  /\ pila' = << >>
                  /\ pc' = "terminado"
                  /\ conjuntos_conflicto' = cc
             ELSE /\ resultado' = Pendiente
                  /\ pila' = <<MarcoBJ(DictVacio)>>
                  /\ pc' = "bucle"
                  /\ conjuntos_conflicto' = [cc EXCEPT ![SeleccionarVariable(DictVacio)] = {}]
    /\ UNCHANGED <<previo, csp, noBJ>>

\* one iteration of the for loop of _backjump, up to the recursive call's first loop
BJ_Probar ==
    /\ solver = "BJ" /\ pc = "bucle"
    /\ Cima.i <= Len(Cima.valores)
    /\ LET var == Cima.var
           valor == Cima.valores[Cima.i]
       IN IF EsConsistente(csp, var, valor, asignacion)
             THEN LET a2 == Poner(asignacion, var, valor)
                  IN /\ asignacion' = a2
                     /\ IF Completa(a2)
                           THEN /\ resultado' = ResDict(a2)
                                /\ pila' = << >>
                                /\ pc' = "terminado"
                                /\ UNCHANGED conjuntos_conflicto
                           ELSE /\ pila' = Append(pila, MarcoBJ(a2))
                                /\ conjuntos_conflicto' =
                                      [conjuntos_conflicto EXCEPT ![SeleccionarVariable(a2)] = {}]
                                /\ UNCHANGED <<resultado, pc>>
             ELSE /\ conjuntos_conflicto' =
                        [conjuntos_conflicto EXCEPT
                            ![var] = AgregarConflictos(@,
                                        ObtenerVariablesConflicto(csp, var, valor, asignacion))]
                  /\ pila' = ConCima([Cima EXCEPT !.i = @ + 1])
                  /\ UNCHANGED <<asignacion, resultado, pc>>
    /\ UNCHANGED <<previo, csp, solver, retrocesos, dom0, ret, saltos, noBJ>>

\* what resolver makes of the value the outermost _backjump call returned
ResolverBJ(r) == IF r.tipo = "FALLO" THEN ResNone ELSE ResSet(r.conj)

\* the loop is exhausted: return conjuntos_conflicto[var] (the set object itself)
\* if it is not empty, else "FALLO"
BJ_Retornar ==
    /\ solver = "BJ" /\ pc = "bucle"
    /\ Cima.i > Len(Cima.valores)
    /\ LET var == Cima.var
           r == IF conjuntos_conflicto[var] # {}
                   THEN [tipo |-> "set", conj |-> conjuntos_conflicto[var], de |-> var]
                   ELSE [tipo |-> "FALLO", conj |-> {}, de |-> 0]
       IN /\ ret' = r
          /\ pila' = SinCima
          /\ IF Len(pila) = 1
                THEN resultado' = ResolverBJ(r) /\ pc' = "terminado"
                ELSE pc' = "retorno" /\ UNCHANGED resultado
    /\ UNCHANGED <<previo, csp, solver, asignacion, retrocesos, dom0, conjuntos_conflicto, saltos, noBJ>>

\* the jump over var leaving the value of var in asignacion
BJ_Saltar_SinBorrar ==
    /\ solver = "BJ" /\ pc = "retorno"
    /\ ret.tipo = "set" /\ Cima.var \notin ret.conj
    /\ saltos' = saltos + 1
    /\ pila' = SinCima
    /\ IF Len(pila) = 1
          THEN resultado' = ResolverBJ(ret) /\ pc' = "terminado"
          ELSE UNCHANGED <<resultado, pc>>
    /\ UNCHANGED <<previo, csp, solver, asignacion, retrocesos, dom0, conjuntos_conflicto, ret, noBJ>>

\* the recursive call returned a conflict set without var: jump over var
BJ_Saltar ==
    /\ solver = "BJ" /\ pc = "retorno"
    /\ ret.tipo = "set" /\ Cima.var \notin ret.conj
    /\ asignacion' = Quitar(asignacion, Cima.var)
    /\ saltos' = saltos + 1
    /\ pila' = SinCima
    /\ IF Len(pila) = 1
          THEN resultado' = ResolverBJ(ret) /\ pc' = "terminado"
          ELSE UNCHANGED <<resultado, pc>>
    /\ UNCHANGED <<previo, csp, solver, retrocesos, dom0, conjuntos_conflicto, ret, noBJ>>

\* the recursive call returned "FALLO" or a conflict set with var in it: var is taken
\* out of the returned set object (still the dict entry of the variable that returned
\* it), the rest joins var's conflict set, then del asignacion[var]; retrocesos += 1
BJ_Retroceder ==
    /\ solver = "BJ" /\ pc = "retorno"
    /\ ret.tipo = "FALLO" \/ (ret.tipo = "set" /\ Cima.var \in ret.conj)
    /\ LET var == Cima.var
           conjunto_conf == ret.conj \ {var}
       IN /\ IF ret.tipo = "set"
                THEN conjuntos_conflicto' =
                        [u \in DOMAIN conjuntos_conflicto |->
                            IF u = var THEN conjuntos_conflicto[var] \cup conjunto_conf
                            ELSE IF u = ret.de THEN conjunto_conf
                            ELSE conjuntos_conflicto[u]]
                ELSE UNCHANGED conjuntos_conflicto
          /\ ret' = [ret EXCEPT !.conj = conjunto_conf]
          /\ asignacion' = Quitar(asignacion, var)
    /\ retrocesos' = retrocesos + 1
    /\ pila' = ConCima([Cima EXCEPT !.i = @ + 1])
    /\ pc' = "bucle"
    /\ UNCHANGED <<previo, csp, solver, resultado, dom0, saltos, noBJ>>

(* ======================= ac3 / SolucionadorMAC ======================= *)
\* CSP._calcular_arcos (the field csp.arcos of the CSP class of the AC-3 file)
CalcularArcos(c) ==
    [k \in 1 .. 2 * Len(c.restricciones) |->
        LET r == c.restricciones[(k + 1) \div 2]
        IN IF k % 2 = 1 THEN <<r.vars[1], r.vars[2]>> ELSE <<r.vars[2], r.vars[1]>>]

\* the positions of the key (x, y) in csp.restricciones (none or one)
ClaveEn(c, x, y) == {k \in 1 .. Len(c.restricciones) : c.restricciones[k].vars = <<x, y>>}

\* es_consistente_binaria handing the values to the restriction keyed (var2, var1) in
\* the order of its own parameters
EsConsistenteBinaria_SinInvertir(c, var1, valor1, var2, valor2) ==
    IF ClaveEn(c, var1, var2) # {}
       THEN Cumple(c.restricciones[CHOOSE k \in ClaveEn(c, var1, var2) : TRUE], <<valor1, valor2>>)
       ELSE IF ClaveEn(c, var2, var1) # {}
               THEN Cumple(c.restricciones[CHOOSE k \in ClaveEn(c, var2, var1) : TRUE],
                           <<valor1, valor2>>)
               ELSE TRUE

\* CSP.es_consistente_binaria
EsConsistenteBinaria(c, var1, valor1, var2, valor2) ==
    IF ClaveEn(c, var1, var2) # {}
       THEN Cumple(c.restricciones[CHOOSE k \in ClaveEn(c, var1, var2) : TRUE], <<valor1, valor2>>)
       ELSE IF ClaveEn(c, var2, var1) # {}
               THEN Cumple(c.restricciones[CHOOSE k \in ClaveEn(c, var2, var1) : TRUE],
                           <<valor2, valor1>>)
               ELSE TRUE

\* revisar_arco keeping a value only when every value of xj is compatible with it
RevisarArco_TodosApoyan(c, xi, xj, doms) ==
    LET Queda(valor_i) ==
            \A k \in 1 .. Len(doms[xj]) : EsConsistenteBinaria(c, xi, valor_i, xj, doms[xj][k])
        nuevo == SelectSeq(doms[xi], Queda)
    IN [revisado |-> Len(nuevo) < Len(doms[xi]),
        num_podas |-> Len(doms[xi]) - Len(nuevo),
        dominios |-> [doms EXCEPT ![xi] = nuevo]]

\* revisar_arco reporting a removal whether or not a value was removed
RevisarArco_SiempreRevisado(c, xi, xj, doms) ==
    LET Queda(valor_i) ==
            \E k \in 1 .. Len(doms[xj]) : EsConsistenteBinaria(c, xi, valor_i, xj, doms[xj][k])
        nuevo == SelectSeq(doms[xi], Queda)
    IN [revisado |-> TRUE,
        num_podas |-> Len(doms[xi]) - Len(nuevo),
        dominios |-> [doms EXCEPT ![xi] = nuevo]]

\* revisar_arco: the new list dominios[xi] and the flag revisado
RevisarArco(c, xi, xj, doms) ==
    LET Queda(valor_i) ==
            \E k \in 1 .. Len(doms[xj]) : EsConsistenteBinaria(c, xi, valor_i, xj, doms[xj][k])
        nuevo == SelectSeq(doms[xi], Queda)
    IN [revisado |-> Len(nuevo) < Len(doms[xi]),
        num_podas |-> Len(doms[xi]) - Len(nuevo),
        dominios |-> [doms EXCEPT ![xi] = nuevo]]

\* ac3 without the copy: its dict holds the lists of the CSP themselves
DominiosDelCSPTrasRevisar_SinCopia(c, doms) == doms

\* csp.dominios after revisar_arco removed values in place from the lists of ac3's
\* dict, which then holds doms: the lists are the copies made in the first line of
\* ac3, so the lists of the CSP keep their values
DominiosDelCSPTrasRevisar(c, doms) == c.dominios

\* the first lines of ac3: the domains are copied from csp.dominios, the deque is filled
AC3_Comenzar(arcos) ==
    /\ dominios' = [var \in Rango(csp.variables) |-> csp.dominios[var]]
    /\ cola' = arcos
    /\ exito' = "pendiente"
    /\ revisiones' = 0

\* ac3(csp) called on its own
AC3_Llamar ==
    /\ pc = "inactivo"
    /\ EsBinario(csp)
    /\ solver' = "AC3"
    /\ pc' = "ac3"
    /\ AC3_Comenzar(CalcularArcos(csp))
    /\ retrocesos' = 0
    /\ dom0' = csp.dominios
    /\ asignacion' = DictVacio
    /\ pila' = << >>
    /\ resultado' = Pendiente
    /\ UNCHANGED <<previo, csp, noAC>>

\* the re-enqueueing loop of ac3 without its test xk != xj
VecinosAReencolar_ConXj(c, xi, xj) == c.vecinos[xi]

\* the variables xk of the loop `for xk in csp.vecinos[xi]: if xk != xj` of ac3
VecinosAReencolar(c, xi, xj) == c.vecinos[xi] \ {xj}

\* one iteration of the while loop of ac3; the arcs (xk, xi) are appended in the
\* iteration order of the set csp.vecinos[xi]
AC3_Revisar ==
    /\ pc = "ac3" /\ cola # << >>
    /\ LET xi == cola[1][1]
           xj == cola[1][2]
           rev == RevisarArco(csp, xi, xj, dominios)
       IN /\ dominios' = rev.dominios
          /\ revisiones' = revisiones + 1
          /\ csp' = [csp EXCEPT !.dominios = DominiosDelCSPTrasRevisar(csp, rev.dominios)]
          /\ IF rev.revisado
                THEN IF rev.dominios[xi] = << >>
                        THEN /\ exito' = "False"
                             /\ pc' = "ac3_ret"
                             /\ cola' = Tail(cola)
                        ELSE /\ \E orden \in Permutaciones(VecinosAReencolar(csp, xi, xj)) :
                                  cola' = Tail(cola) \o [k \in 1 .. Len(orden) |-> <<orden[k], xi>>]
                             /\ UNCHANGED <<exito, pc>>
                ELSE /\ cola' = Tail(cola)
                     /\ UNCHANGED <<exito, pc>>
    /\ UNCHANGED <<previo, solver, asignacion, pila, resultado, retrocesos, dom0, noAC>>

\* the deque is empty: return True, dominios
AC3_Terminar ==
    /\ pc = "ac3" /\ cola = << >>
    /\ exito' = "True"
    /\ pc' = "ac3_ret"
    /\ UNCHANGED <<previo, csp, solver, asignacion, pila, resultado, retrocesos, dom0, cola, dominios,
                   revisiones, noAC>>

\* the caller of ac3(csp) receives (exito, dominios)
AC3_Devolver ==
    /\ solver = "AC3" /\ pc = "ac3_ret"
    /\ pc' = "terminado"
    /\ resultado' = [tipo |-> "ac3", asig |-> DictVacio, conj |-> {}]
    /\ UNCHANGED <<previo, csp, solver, asignacion, pila, retrocesos, dom0, locales>>

\* SolucionadorMAC._seleccionar_variable_mrv
SeleccionarVariableMRV_MAC(a, doms) ==
    LET tam(v) == Len(doms[v])
    IN MinPorClave(NoAsignadas(a), tam)

\* the frame of a call of SolucionadorMAC._backtrack past the base case
MarcoMAC(a, doms) ==
    LET var == SeleccionarVariableMRV_MAC(a, doms)
    IN [var |-> var, valores |-> doms[var], i |-> 1, dominios |-> doms]

\* SolucionadorMAC.resolver up to the call of ac3(self.csp)
MAC_Resolver ==
    /\ pc = "inactivo"
    /\ EsBinario(csp)
    /\ solver' = "MAC"
    /\ retrocesos' = 0
    /\ dom0' = csp.dominios
    /\ asignacion' = DictVacio
    /\ pila' = << >>
    /\ resultado' = Pendiente
    /\ pc' = "ac3"
    /\ AC3_Comenzar(CalcularArcos(csp))
    /\ UNCHANGED <<previo, csp, noAC>>

\* SolucionadorMAC.resolver after the preprocessing: None, or _backtrack({}, dominios_iniciales)
MAC_TrasPreproceso ==
    /\ solver = "MAC" /\ pc = "ac3_ret" /\ pila = << >>
    /\ IF exito = "False"
          THEN resultado' = ResNone /\ pc' = "terminado" /\ UNCHANGED pila
          ELSE IF Completa(asignacion)
                  THEN resultado' = ResDict(asignacion) /\ pc' = "terminado" /\ UNCHANGED pila
                  ELSE /\ pila' = <<MarcoMAC(asignacion, dominios)>>
                       /\ pc' = "bucle"
                       /\ UNCHANGED resultado
    /\ UNCHANGED <<previo, csp, solver, asignacion, retrocesos, dom0, locales>>

\* one iteration of the for loop of SolucionadorMAC._backtrack up to the call of ac3:
\* var is assigned without a consistency test; dominios_nuevos (the copy with
\* dominios_nuevos[var] = [valor]) is not passed to ac3, which gets self.csp and the
\* arcs only and starts again from csp.dominios
MAC_Probar ==
    /\ solver = "MAC" /\ pc = "bucle"
    /\ Cima.i <= Len(Cima.valores)
    /\ LET var == Cima.var
           valor == Cima.valores[Cima.i]
           a2 == Poner(asignacion, var, valor)
       IN /\ asignacion' = a2
          /\ \E orden \in Permutaciones(csp.vecinos[var] \ DOMAIN a2) :
                AC3_Comenzar([k \in 1 .. Len(orden) |-> <<orden[k], var>>])
    /\ pc' = "ac3"
    /\ UNCHANGED <<previo, csp, solver, pila, resultado, retrocesos, dom0, noAC>>

\* _backtrack after ac3 returned: recurse with the returned domains, or fall through
MAC_TrasAC3 ==
    /\ solver = "MAC" /\ pc = "ac3_ret" /\ pila # << >>
    /\ IF exito = "True"
          THEN IF Completa(asignacion)
                  THEN resultado' = ResDict(asignacion) /\ pila' = << >> /\ pc' = "terminado"
                  ELSE /\ pila' = Append(pila, MarcoMAC(asignacion, dominios))
                       /\ pc' = "bucle"
                       /\ UNCHANGED resultado
          ELSE pc' = "retorno" /\ UNCHANGED <<pila, resultado>>
    /\ UNCHANGED <<previo, csp, solver, asignacion, retrocesos, dom0, locales>>

\* the loop is exhausted: return None
MAC_Retornar ==
    /\ solver = "MAC" /\ pc = "bucle"
    /\ Cima.i > Len(Cima.valores)
    /\ pila' = SinCima
    /\ IF Len(pila) = 1
          THEN resultado' = ResNone /\ pc' = "terminado"
          ELSE pc' = "retorno" /\ UNCHANGED resultado
    /\ UNCHANGED <<previo, csp, solver, asignacion, retrocesos, dom0, locales>>

\* del asignacion[var]; retrocesos += 1
MAC_Retroceder ==
    /\ solver = "MAC" /\ pc = "retorno"
    /\ asignacion' = Quitar(asignacion, Cima.var)
    /\ retrocesos' = retrocesos + 1
    /\ pila' = ConCima([Cima EXCEPT !.i = @ + 1])
    /\ pc' = "bucle"
    /\ UNCHANGED <<previo, csp, solver, resultado, dom0, locales>>

(* ======================= min_conflicts ======================= *)
\* CSP.contar_conflictos
ContarConflictos(c, var, valor, a) ==
    LET asignacion_temp == Poner(a, var, valor)
    IN Cardinality({k \in 1 .. Len(c.restricciones) :
          LET r == c.restricciones[k]
          IN /\ var \in Rango(r.vars)
             /\ Rango(r.vars) \subseteq DOMAIN asignacion_temp
             /\ ~Cumple(r, [i \in 1 .. Len(r.vars) |-> asignacion_temp[r.vars[i]]])})

\* obtener_variables_en_conflicto looking at the restrictions over two variables only
ObtenerVariablesEnConflicto_SoloBinarias(c, a) ==
    UNION {Rango(c.restricciones[k].vars) :
              k \in {j \in 1 .. Len(c.restricciones) :
                        LET r == c.restricciones[j]
                        IN /\ Len(r.vars) = 2
                           /\ Rango(r.vars) \subseteq DOMAIN a
                           /\ ~Cumple(r, [i \in 1 .. Len(r.vars) |-> a[r.vars[i]]])}}

\* CSP.obtener_variables_en_conflicto (as a set; the caller draws from it at random)
ObtenerVariablesEnConflicto(c, a) ==
    UNION {Rango(c.restricciones[k].vars) :
              k \in {j \in 1 .. Len(c.restricciones) :
                        LET r == c.restricciones[j]
                        IN /\ Rango(r.vars) \subseteq DOMAIN a
                           /\ ~Cumple(r, [i \in 1 .. Len(r.vars) |-> a[r.vars[i]]])}}

\* valores_minimos without the comparison of counts: every value of the domain
ValoresMinimos_SinComparar(c, var, a) == c.dominios[var]

\* the list valores_minimos built by the inner loop of min_conflicts
ValoresMinimos(c, var, a) ==
    LET EsMinimo(valor) ==
            \A k \in 1 .. Len(c.dominios[var]) :
                ContarConflictos(c, var, valor, a) <= ContarConflictos(c, var, c.dominios[var][k], a)
    IN SelectSeq(c.dominios[var], EsMinimo)

\* the initial assignments random.choice can produce
AsignacionesAleatorias(c) ==
    {a \in [Rango(c.variables) -> UNION {Rango(c.dominios[v]) : v \in Rango(c.variables)}] :
        \A v \in Rango(c.variables) : a[v] \in Rango(c.dominios[v])}

ResExcepcion == [tipo |-> "excepcion", asig |-> DictVacio, conj |-> {}]

\* min_conflicts(csp, max_pasos) up to the loop; random.choice of an empty domain raises
MC_Llamar ==
    /\ pc = "inactivo"
    /\ solver' = "MinConf"
    /\ \E mp \in 0 .. MaxPasos : max_pasos' = mp
    /\ paso' = 0
    /\ dom0' = csp.dominios
    /\ IF \E v \in Rango(csp.variables) : csp.dominios[v] = << >>
          THEN /\ resultado' = ResExcepcion
               /\ pc' = "terminado"
               /\ UNCHANGED asignacion
          ELSE /\ \E a \in AsignacionesAleatorias(csp) : asignacion' = a
               /\ pc' = "mc"
               /\ UNCHANGED resultado
    /\ UNCHANGED <<previo, csp, pila, retrocesos, cambios, historial_conflictos, noMC>>

\* one iteration of the for loop of min_conflicts
MC_Paso ==
    /\ solver = "MinConf" /\ pc = "mc"
    /\ paso < max_pasos
    /\ LET variables_conflicto == ObtenerVariablesEnConflicto(csp, asignacion)
       IN IF variables_conflicto = {}
             THEN /\ resultado' = ResDict(asignacion)
                  /\ pc' = "terminado"
                  /\ UNCHANGED <<asignacion, paso>>
             ELSE /\ \E var \in variables_conflicto :
                        \E valor \in Rango(ValoresMinimos(csp, var, asignacion)) :
                            asignacion' = [asignacion EXCEPT ![var] = valor]
                  /\ paso' = paso + 1
                  /\ UNCHANGED <<resultado, pc>>
    /\ UNCHANGED <<previo, csp, solver, pila, retrocesos, dom0, max_pasos, cambios, historial_conflictos, noMC>>

\* the for loop ran max_pasos times: return None
MC_Agotar ==
    /\ solver = "MinConf" /\ pc = "mc"
    /\ paso = max_pasos
    /\ resultado' = ResNone
    /\ pc' = "terminado"
    /\ UNCHANGED <<previo, csp, solver, asignacion, pila, retrocesos, dom0, mcVars, noMC>>

\* min_conflicts_con_estadisticas(csp, max_pasos) up to the loop
MCE_Llamar ==
    /\ pc = "inactivo"
    /\ solver' = "MinConfEst"
    /\ \E mp \in 0 .. MaxPasos : max_pasos' = mp
    /\ paso' = 0
    /\ cambios' = 0
    /\ historial_conflictos' = << >>
    /\ dom0' = csp.dominios
    /\ IF \E v \in Rango(csp.variables) : csp.dominios[v] = << >>
          THEN /\ resultado' = ResExcepcion
               /\ pc' = "terminado"
               /\ UNCHANGED asignacion
          ELSE /\ \E a \in AsignacionesAleatorias(csp) : asignacion' = a
               /\ pc' = "mc"
               /\ UNCHANGED resultado
    /\ UNCHANGED <<previo, csp, pila, retrocesos, noMC>>

\* one iteration of the for loop of min_conflicts_con_estadisticas
MCE_Paso ==
    /\ solver = "MinConfEst" /\ pc = "mc"
    /\ paso < max_pasos
    /\ LET variables_conflicto == ObtenerVariablesEnConflicto(csp, asignacion)
       IN /\ historial_conflictos' = Append(historial_conflictos, Cardinality(variables_conflicto))
          /\ IF variables_conflicto = {}
                THEN /\ resultado' = ResDict(asignacion)
                     /\ pc' = "terminado"
                     /\ UNCHANGED <<asignacion, paso, cambios>>
                ELSE /\ \E var \in variables_conflicto :
                           \E nuevo_valor \in Rango(ValoresMinimos(csp, var, asignacion)) :
                               /\ asignacion' = [asignacion EXCEPT ![var] = nuevo_valor]
                               /\ cambios' = IF asignacion[var] # nuevo_valor
                                                THEN cambios + 1 ELSE cambios
                     /\ paso' = paso + 1
                     /\ UNCHANGED <<resultado, pc>>
    /\ UNCHANGED <<previo, csp, solver, pila, retrocesos, dom0, max_pasos, noMC>>

\* the for loop ran max_pasos times: return None, cambios, historial_conflictos
MCE_Agotar ==
    /\ solver = "MinConfEst" /\ pc = "mc"
    /\ paso = max_pasos
    /\ resultado' = ResNone
    /\ pc' = "terminado"
    /\ UNCHANGED <<previo, csp, solver, asignacion, pila, retrocesos, dom0, mcVars, noMC>>

(* ======================= cutset conditioning ======================= *)
\* Python iterates a set in an order the program does not control: every loop over
\* a set below is explored in every order.

\* the cycle test without the comparison with padre
VeCiclo_SinPadre(dentro, visitados, padre) ==
    \E vecino \in dentro : vecino \in visitados

\* tiene_ciclo_bfs: some neighbour inside the subgraph is visited and is not padre
VeCiclo(dentro, visitados, padre) ==
    \E vecino \in dentro : vecino \in visitados /\ vecino # padre

RECURSIVE ResultadosBFS(_, _, _, _)
\* tiene_ciclo_bfs from the state (cola, visitados) of its while loop: the possible
\* outcomes [ciclo, visitados]; padre None is 0
ResultadosBFS(c, vs, q, visitados) ==
    IF q = << >> THEN {[ciclo |-> FALSE, visitados |-> visitados]}
    ELSE LET nodo == q[1][1]
             padre == q[1][2]
             dentro == c.vecinos[nodo] \cap vs
             nuevos == dentro \ visitados
         IN IF VeCiclo(dentro, visitados, padre)
               THEN {[ciclo |-> TRUE, visitados |-> visitados]}
               ELSE UNION {ResultadosBFS(c, vs,
                               Tail(q) \o [k \in 1 .. Len(orden) |-> <<orden[k], nodo>>],
                               visitados \cup nuevos) :
                           orden \in Permutaciones(nuevos)}

\* tiene_ciclo_bfs(csp, inicio, variables, visitados)
TieneCicloBFS(c, inicio, vs, visitados) ==
    ResultadosBFS(c, vs, <<<<inicio, 0>>>>, visitados \cup {inicio})

RECURSIVE RecorrerInicios(_, _, _, _)
\* the for loop of es_aciclico over the starts not yet iterated: the possible results
RecorrerInicios(c, vs, pendientes, visitados) ==
    IF pendientes = {} THEN {TRUE}
    ELSE UNION {IF inicio \in visitados
                   THEN RecorrerInicios(c, vs, pendientes \ {inicio}, visitados)
                   ELSE UNION {IF r.ciclo THEN {FALSE}
                               ELSE RecorrerInicios(c, vs, pendientes \ {inicio}, r.visitados) :
                               r \in TieneCicloBFS(c, inicio, vs, visitados)} :
                inicio \in pendientes}

\* es_aciclico(csp, variables): the set of values it can return
EsAciclico(c, vs) ==
    IF Cardinality(vs) <= 1 THEN {TRUE} ELSE RecorrerInicios(c, vs, vs, {})

\* the variables max(variables_restantes, key=degree in the subgraph) can return
VarMaxGrado(c, vs) ==
    {v \in vs : \A u \in vs : Cardinality(c.vecinos[v] \cap vs) >= Cardinality(c.vecinos[u] \cap vs)}

RECURSIVE Dfs(_, _, _, _), RecorrerVecinos(_, _, _, _)
\* the inner dfs(var) of ordenar_topologicamente from the state st = [orden, visitados]
Dfs(c, vs, var, st) ==
    LET st1 == [st EXCEPT !.visitados = @ \cup {var}]
        tras == UNION {RecorrerVecinos(c, vs, p, st1) : p \in Permutaciones(c.vecinos[var])}
    IN {[s EXCEPT !.orden = Append(@, var)] : s \in tras}

\* the for loop of dfs over the neighbours p still to iterate
RecorrerVecinos(c, vs, p, st) ==
    IF p = << >> THEN {st}
    ELSE IF p[1] \in vs /\ p[1] \notin st.visitados
            THEN UNION {RecorrerVecinos(c, vs, Tail(p), s2) : s2 \in Dfs(c, vs, p[1], st)}
            ELSE RecorrerVecinos(c, vs, Tail(p), st)

\* ordenar_topologicamente(csp, raiz, variables): the lists it can return
OrdenarTopologicamente(c, raiz, vs) ==
    {s.orden : s \in Dfs(c, vs, raiz, [orden |-> << >>, visitados |-> {}])}

Invertir(s) == [k \in 1 .. Len(s) |-> s[Len(s) + 1 - k]]

RECURSIVE Fase1(_, _, _, _)
\* phase 1 of resolver_arbol_csp over the rest of reversed(orden): csp.dominios after it
\* and whether it went through (False: return None)
Fase1(c, doms, lista, a) ==
    IF lista = << >> THEN [ok |-> TRUE, dominios |-> doms]
    ELSE LET var == lista[1]
             Valido(valor) == EsConsistente(c, var, valor, a)
             valores_validos == SelectSeq(doms[var], Valido)
         IN IF var \in DOMAIN a THEN Fase1(c, doms, Tail(lista), a)
            ELSE IF valores_validos = << >> THEN [ok |-> FALSE, dominios |-> doms]
            ELSE Fase1(c, [doms EXCEPT ![var] = valores_validos], Tail(lista), a)

RECURSIVE Fase2(_, _, _, _)
\* phase 2 of resolver_arbol_csp over the rest of orden: the returned value
Fase2(c, doms, lista, a) ==
    IF lista = << >> THEN ResDict(a)
    ELSE LET var == lista[1]
             Valido(valor) == EsConsistente(c, var, valor, a)
             validos == SelectSeq(doms[var], Valido)
         IN IF var \in DOMAIN a THEN Fase2(c, doms, Tail(lista), a)
            ELSE IF validos = << >> THEN ResNone
            ELSE Fase2(c, doms, Tail(lista), Poner(a, var, validos[1]))

\* resolver_arbol_csp(csp, variables, asignacion) once raiz is drawn and orden computed:
\* the returned value and csp.dominios after the call
ResolverArbolCSP(c, vs, a, orden) ==
    IF vs = {} THEN [res |-> ResDict(a), dominios |-> c.dominios]
    ELSE LET f1 == Fase1(c, c.dominios, Invertir(orden), a)
         IN IF ~f1.ok THEN [res |-> ResNone, dominios |-> f1.dominios]
            ELSE [res |-> Fase2(c, f1.dominios, orden, a), dominios |-> f1.dominios]

\* the lists orden that resolver_arbol_csp can work with (raiz = next(iter(variables)))
OrdenesDeArbol(c, vs) ==
    IF vs = {} THEN {<< >>}
    ELSE UNION {OrdenarTopologicamente(c, raiz, vs) : raiz \in vs}

RECURSIVE GenerarCombinaciones(_, _)
\* generar_combinaciones(variables, dominios), both lists
GenerarCombinaciones(vs, doms) ==
    IF vs = << >> THEN <<DictVacio>>
    ELSE LET resto == GenerarCombinaciones(Tail(vs), Tail(doms))
             n == Len(resto)
         IN [k \in 1 .. Len(doms[1]) * n |->
                Poner(resto[((k - 1) % n) + 1], vs[1], doms[1][((k - 1) \div n) + 1])]

\* acondicionamiento_cutset(csp) up to the loop of encontrar_cutset_simple
Corte_Llamar ==
    /\ pc = "inactivo"
    /\ solver' = "Corte"
    /\ pc' = "cutset"
    /\ cutset' = {}
    /\ variables_restantes' = Rango(csp.variables)
    /\ combinaciones' = << >>
    /\ idx' = 0
    /\ dom0' = csp.dominios
    /\ UNCHANGED <<previo, csp, asignacion, pila, resultado, retrocesos, noCorte>>

\* one iteration of the while loop of encontrar_cutset_simple
Corte_Elegir ==
    /\ solver = "Corte" /\ pc = "cutset"
    /\ FALSE \in EsAciclico(csp, variables_restantes)
    /\ \E var_max_grado \in VarMaxGrado(csp, variables_restantes) :
          /\ cutset' = cutset \cup {var_max_grado}
          /\ variables_restantes' = variables_restantes \ {var_max_grado}
    /\ UNCHANGED <<previo, csp, base, combinaciones, idx, noCorte>>

\* encontrar_cutset_simple returns; the cutset is listed and its assignments generated
Corte_Combinar ==
    /\ solver = "Corte" /\ pc = "cutset"
    /\ TRUE \in EsAciclico(csp, variables_restantes)
    /\ \E variables_cutset \in Permutaciones(cutset) :
          combinaciones' = GenerarCombinaciones(variables_cutset,
                               [k \in 1 .. Len(variables_cutset) |-> csp.dominios[variables_cutset[k]]])
    /\ idx' = 1
    /\ pc' = "combinaciones"
    /\ UNCHANGED <<previo, csp, solver, asignacion, pila, resultado, retrocesos, dom0,
                   cutset, variables_restantes, noCorte>>

\* one iteration of the for loop of acondicionamiento_cutset: resolver_arbol_csp on a
\* copy of the cutset assignment
Corte_Probar ==
    /\ solver = "Corte" /\ pc = "combinaciones"
    /\ idx <= Len(combinaciones)
    /\ LET restantes == Rango(csp.variables) \ cutset
       IN \E orden \in OrdenesDeArbol(csp, restantes) :
             LET r == ResolverArbolCSP(csp, restantes, combinaciones[idx], orden)
             IN /\ csp' = [csp EXCEPT !.dominios = r.dominios]
                /\ variables_restantes' = restantes
                /\ IF r.res.tipo = "dict"
                      THEN /\ resultado' = r.res
                           /\ asignacion' = r.res.asig
                           /\ pc' = "terminado"
                           /\ UNCHANGED idx
                      ELSE /\ idx' = idx + 1
                           /\ UNCHANGED <<resultado, asignacion, pc>>
    /\ UNCHANGED <<previo, solver, pila, retrocesos, dom0, cutset, combinaciones, noCorte>>

\* every cutset assignment failed: return None
Corte_Agotar ==
    /\ solver = "Corte" /\ pc = "combinaciones"
    /\ idx > Len(combinaciones)
    /\ resultado' = ResNone
    /\ pc' = "terminado"
    /\ UNCHANGED <<previo, csp, solver, asignacion, pila, retrocesos, dom0, corteVars, noCorte>>

(* ======================= the caller ======================= *)
\* every local of the finished call is dropped
OlvidarLocales ==
    /\ solver' = "ninguno"
    /\ pc' = "inactivo"
    /\ asignacion' = DictVacio
    /\ pila' = << >>
    /\ resultado' = Pendiente
    /\ retrocesos' = 0
    /\ conjuntos_conflicto' = DictVacio
    /\ ret' = SinRetorno
    /\ saltos' = 0
    /\ cola' = << >>
    /\ dominios' = DictVacio
    /\ exito' = "pendiente"
    /\ revisiones' = 0
    /\ paso' = 0
    /\ max_pasos' = 0
    /\ cambios' = 0
    /\ historial_conflictos' = << >>
    /\ cutset' = {}
    /\ variables_restantes' = {}
    /\ combinaciones' = << >>
    /\ idx' = 0

\* the call is over and the CSP object stays as the call left it
Olvidar ==
    /\ OlvidarLocales
    /\ dom0' = csp.dominios
    /\ UNCHANGED csp

\* the caller drops the result; the CSP object stays and can be solved again
Reiniciar ==
    /\ pc = "terminado"
    /\ Olvidar
    /\ previo' = SinPrevio

\* the caller keeps which solver ran and what kind of value it returned, then solves
\* the same CSP object again (the comparisons of the examples: one CSP, several solvers)
Recordar ==
    /\ pc = "terminado"
    /\ Olvidar
    /\ previo' = [solver |-> solver, tipo |-> resultado.tipo]

\* the caller of ac3(csp) got (True, dominios) and goes on with the CSP whose domains
\* are the returned ones (csp.dominios = dominios), to run ac3 on it again
AC3_Adoptar ==
    /\ pc = "terminado" /\ solver = "AC3" /\ exito = "True"
    /\ OlvidarLocales
    /\ csp' = [csp EXCEPT !.dominios = dominios]
    /\ dom0' = dominios
    /\ previo' = [solver |-> "AC3", tipo |-> "True"]

Busqueda ==
    \/ BT_Resolver \/ BT_Probar \/ BT_Retornar \/ BT_Retroceder
    \/ Mejorado_Resolver \/ Mejorado_Probar \/ Mejorado_Retornar \/ Mejorado_Retroceder
    \/ FC_Resolver \/ FC_Probar \/ FC_Retornar \/ FC_Retroceder
    \/ BJ_Resolver \/ BJ_Probar \/ BJ_Retornar \/ BJ_Saltar \/ BJ_Retroceder

Propagacion ==
    \/ AC3_Llamar \/ AC3_Revisar \/ AC3_Terminar \/ AC3_Devolver
    \/ MAC_Resolver \/ MAC_TrasPreproceso \/ MAC_Probar \/ MAC_TrasAC3
    \/ MAC_Retornar \/ MAC_Retroceder

MinConflictos ==
    \/ MC_Llamar \/ MC_Paso \/ MC_Agotar
    \/ MCE_Llamar \/ MCE_Paso \/ MCE_Agotar

Corte ==
    \/ Corte_Llamar \/ Corte_Elegir \/ Corte_Combinar \/ Corte_Probar \/ Corte_Agotar

\* every entry point, on a CSP object that is used again after each call
Next == Busqueda \/ Propagacion \/ MinConflictos \/ Corte \/ Reiniciar

Spec == Init /\ [][Next]_vars

\* the four systematic searches without propagation
NextBusqueda == Busqueda \/ Reiniciar
SpecBusqueda == Init /\ [][NextBusqueda]_vars

\* the same searches, the caller remembering the outcome of the previous one
NextPar == Busqueda \/ Recordar
SpecPar == Init /\ [][NextPar]_vars

\* ac3 and MAC
NextPropagacion == Propagacion \/ Reiniciar
SpecPropagacion == Init /\ [][NextPropagacion]_vars

\* ac3 on its own, run again on the domains it returned
NextRepetida == AC3_Llamar \/ AC3_Revisar \/ AC3_Terminar \/ AC3_Devolver
                    \/ AC3_Adoptar \/ Reiniciar
SpecRepetida == Init /\ [][NextRepetida]_vars

\* ac3 and MAC, the interpreter never stopping inside the while loop of ac3
SpecPropagacionJusta ==
    SpecPropagacion /\ WF_vars(AC3_Revisar) /\ WF_vars(AC3_Terminar)

\* the five resolver() methods and ac3
NextResolver == Busqueda \/ Propagacion \/ Reiniciar
SpecResolver == Init /\ [][NextResolver]_vars

\* min_conflicts and min_conflicts_con_estadisticas
NextMinConflictos == MinConflictos \/ Reiniciar
SpecMinConflictos == Init /\ [][NextMinConflictos]_vars

\* acondicionamiento_cutset
NextCorte == Corte \/ Reiniciar
SpecCorte == Init /\ [][NextCorte]_vars

\* acondicionamiento_cutset, the interpreter never stopping inside a call: every step
\* of a call in progress is the only thing that can happen next
SpecCorteJusto == SpecCorte /\ WF_vars(Corte)

(* ======================= properties ======================= *)
\* a is complete, every value lies in the domain of its variable, and every entry of
\* c.restricciones is true of the values of its variables
EsSolucion(c, a) ==
    /\ DOMAIN a = Rango(c.variables)
    /\ \A v \in Rango(c.variables) : a[v] \in Rango(c.dominios[v])
    /\ \A k \in 1 .. Len(c.restricciones) :
          LET r == c.restricciones[k]
          IN Cumple(r, [i \in 1 .. Len(r.vars) |-> a[r.vars[i]]])

SinPropagacion == {"BT", "Mejorado", "FC", "BJ"}

\* C1: whatever resolver() of SolucionadorBacktracking, SolucionadorBacktrackingMejorado,
\* SolucionadorForwardChecking or SolucionadorBackjumping returns other than None is a
\* dict that assigns every variable a value of its domain and makes every restriction true
C1_Solidez ==
    (pc = "terminado" /\ solver \in SinPropagacion /\ resultado.tipo # "None")
        => (resultado.tipo = "dict" /\ EsSolucion(csp, resultado.asig))

\* backjumping returned a solution of a three-variable CSP after backing up
C1_Testigo ==
    /\ pc = "terminado" /\ solver = "BJ" /\ resultado.tipo = "dict"
    /\ Len(csp.variables) = NumVars /\ Len(csp.restricciones) >= 2
    /\ retrocesos > 0

\* every entry of c.restricciones is true of the values a gives to its variables
CumpleTodas(c, a) ==
    \A k \in 1 .. Len(c.restricciones) :
        LET r == c.restricciones[k]
        IN Rango(r.vars) \subseteq DOMAIN a
              /\ Cumple(r, [i \in 1 .. Len(r.vars) |-> a[r.vars[i]]])

\* C2: on a binary CSP, whatever SolucionadorMAC.resolver returns other than None makes
\* every restriction true of the values assigned to its two variables
C2_Solidez_MAC ==
    (pc = "terminado" /\ solver = "MAC" /\ resultado.tipo # "None")
        => (resultado.tipo = "dict" /\ CumpleTodas(csp, resultado.asig))

\* every entry of c.restricciones whose variables all have a value in a is true of them
CumpleAsignadas(c, a) ==
    \A k \in 1 .. Len(c.restricciones) :
        LET r == c.restricciones[k]
        IN Rango(r.vars) \subseteq DOMAIN a
              => Cumple(r, [i \in 1 .. Len(r.vars) |-> a[r.vars[i]]])

\* C3: whatever acondicionamiento_cutset returns other than None makes every restriction
\* true of the values assigned to its variables, the restrictions among cutset variables
\* included
C3_Solidez_Corte ==
    (pc = "terminado" /\ solver = "Corte" /\ resultado.tipo # "None")
        => (resultado.tipo = "dict" /\ CumpleAsignadas(csp, resultado.asig))

\* C4: on the triangle with two colours every solver returns None: the four searches,
\* MAC, cutset conditioning, and min_conflicts with and without statistics for every
\* max_pasos
C4_Triangulo_SinSolucion ==
    (/\ pc = "terminado"
     /\ solver \in SinPropagacion \cup {"MAC", "Corte", "MinConf", "MinConfEst"}
     /\ csp.variables = Triangulo.variables
     /\ csp.restricciones = Triangulo.restricciones
     /\ dom0 = Triangulo.dominios)
        => resultado.tipo = "None"

\* some complete assignment with values from the domains makes every restriction true
HaySolucion(c) ==
    \E a \in [Rango(c.variables) -> UNION {Rango(c.dominios[v]) : v \in Rango(c.variables)}] :
        EsSolucion(c, a)

\* C5: SolucionadorBackjumping.resolver returns an assignment exactly when
\* SolucionadorBacktracking.resolver returns one on the same CSP, whichever of the two
\* ran first, and when it does not it returns None and the CSP has no solution
C5_Saltos_Equivalentes ==
    /\ (pc = "terminado" /\ solver = "BJ" /\ previo.solver = "BT")
          => ((resultado.tipo = "dict") <=> (previo.tipo = "dict"))
    /\ (pc = "terminado" /\ solver = "BT" /\ previo.solver = "BJ")
          => ((resultado.tipo = "dict") <=> (previo.tipo = "dict"))
    /\ (pc = "terminado" /\ solver = "BJ" /\ resultado.tipo # "dict")
          => (resultado.tipo = "None" /\ ~HaySolucion(csp))

\* backjumping found a solution after a jump, on a CSP that backtracking solved just before
C5_Testigo ==
    /\ pc = "terminado" /\ solver = "BJ" /\ previo = [solver |-> "BT", tipo |-> "dict"]
    /\ resultado.tipo = "dict"
    /\ saltos > 0

SinSaltos == {"BT", "Mejorado", "FC"}

\* C6: SolucionadorBacktracking, SolucionadorBacktrackingMejorado and
\* SolucionadorForwardChecking return None only when no complete assignment satisfies
\* every restriction, and any two of them run on the same CSP agree on None versus a
\* solution
C6_Completitud ==
    /\ (pc = "terminado" /\ solver \in SinSaltos /\ resultado.tipo # "dict")
          => (resultado.tipo = "None" /\ ~HaySolucion(csp))
    /\ (pc = "terminado" /\ solver \in SinSaltos /\ previo.solver \in SinSaltos)
          => ((resultado.tipo = "None") <=> (previo.tipo = "None"))

\* forward checking returned None after pruning and backing up, on a CSP with three
\* variables for which MRV/LCV backtracking had returned None as well
C6_Testigo ==
    /\ pc = "terminado" /\ solver = "FC" /\ resultado.tipo = "None"
    /\ previo = [solver |-> "Mejorado", tipo |-> "None"]
    /\ Len(csp.variables) = NumVars /\ retrocesos > 0
    /\ \A v \in Rango(csp.variables) : csp.dominios[v] # << >>

FamiliaRetroceso == {"BT", "Mejorado", "FC", "MAC", "BJ"}

\* C7: when resolver() of SolucionadorBacktracking, SolucionadorBacktrackingMejorado,
\* SolucionadorForwardChecking, SolucionadorMAC or SolucionadorBackjumping has returned,
\* with a solution or with None, csp.dominios holds for every variable the same sequence
\* of values as when the call began
C7_Dominios_Intactos ==
    (pc = "terminado" /\ solver \in FamiliaRetroceso) => csp.dominios = dom0

\* MAC returned after ac3 had pruned values from its own dict of domains
C7_Testigo ==
    /\ pc = "terminado" /\ solver = "MAC" /\ resultado.tipo \in {"dict", "None"}
    /\ \E v \in Rango(csp.variables) : Len(dominios[v]) < Len(dom0[v])
    /\ csp.dominios = dom0

\* C8: acondicionamiento_cutset and the calls of resolver_arbol_csp it makes leave
\* csp.dominios as it was when acondicionamiento_cutset was called, between two cutset
\* assignments as well as after the return
C8_Corte_No_Muta ==
    solver = "Corte" => csp.dominios = dom0

\* C9: whatever min_conflicts or min_conflicts_con_estadisticas returns as assignment,
\* for any random choices and any max_pasos, is complete and violates no restriction
C9_MinConflictos_Solidez ==
    (pc = "terminado" /\ solver \in {"MinConf", "MinConfEst"} /\ resultado.tipo = "dict")
        => EsSolucion(csp, resultado.asig)

\* min_conflicts_con_estadisticas returned an assignment after changing a value
C9_Testigo ==
    /\ pc = "terminado" /\ solver = "MinConfEst" /\ resultado.tipo = "dict"
    /\ cambios > 0 /\ paso > 0
    /\ Len(csp.restricciones) >= 2

\* the neighbour graph induced on S has no cycle: every non-empty part of S has a
\* variable with at most one neighbour in that part
EsBosque(c, S) ==
    \A T \in SUBSET S : T # {} => \E v \in T : Cardinality(c.vecinos[v] \cap T) <= 1

\* what holds once encontrar_cutset_simple has returned inside acondicionamiento_cutset
C10_Corte_Hallado ==
    LET todas == Rango(csp.variables)
    IN /\ (solver = "Corte" /\ pc \in {"combinaciones", "terminado"})
             => EsBosque(csp, todas \ cutset)
       /\ (solver = "Corte" /\ pc \in {"combinaciones", "terminado"} /\ EsBosque(csp, todas))
             => (cutset = {} /\ combinaciones = <<DictVacio>>)
       /\ (solver = "Corte" /\ EsBosque(csp, todas) /\ (pc = "terminado" \/ idx > 1))
             => variables_restantes = todas

\* C10: encontrar_cutset_simple terminates, and the neighbour graph induced on the
\* variables outside the returned cutset has no cycle; on a CSP whose graph has no cycle
\* the cutset is empty, the only cutset assignment is the empty one and
\* resolver_arbol_csp receives every variable
C10_Cutset ==
    /\ []C10_Corte_Hallado
    /\ (solver = "Corte" /\ pc = "cutset") ~> (pc = "combinaciones")

\* the greedy loop took two variables out of a cyclic graph and left a forest
C10_Testigo ==
    /\ solver = "Corte" /\ pc = "combinaciones"
    /\ Cardinality(cutset) = 2
    /\ ~EsBosque(csp, Rango(csp.variables))
    /\ EsBosque(csp, Rango(csp.variables) \ cutset)

\* the CSP as it was when the running call began
CSPInicial == [csp EXCEPT !.dominios = dom0]

\* C11: acondicionamiento_cutset returns None only when no complete assignment with
\* values of the domains it was called with satisfies every restriction
C11_Corte_Completo ==
    (pc = "terminado" /\ solver = "Corte" /\ resultado.tipo = "None")
        => ~HaySolucion(CSPInicial)

\* the neighbour graph induced on S is a tree: one component, no cycle
EsArbol(c, S) ==
    /\ S # {}
    /\ EsBosque(c, S)
    /\ \A T \in SUBSET S : (T # {} /\ T # S) => \E v \in T : c.vecinos[v] \cap (S \ T) # {}

\* some complete assignment over the domains of the call agrees with fijada and makes
\* every restriction true
HayExtension(fijada) ==
    \E a \in [Rango(csp.variables) -> UNION {Rango(dom0[v]) : v \in Rango(csp.variables)}] :
        /\ \A v \in DOMAIN fijada : a[v] = fijada[v]
        /\ EsSolucion(CSPInicial, a)

\* C12: when the variables outside the cutset form a tree, the first call of
\* resolver_arbol_csp made by acondicionamiento_cutset returns an assignment exactly
\* when the cutset assignment it was given can be extended to the tree variables so
\* that every restriction is true
C12_Arbol_Exacto ==
    (solver = "Corte" /\ pc \in {"combinaciones", "terminado"}
        /\ EsArbol(csp, Rango(csp.variables) \ cutset))
        => /\ idx >= 2 => ~HayExtension(combinaciones[1])
           /\ (idx = 1 /\ pc = "terminado") => HayExtension(combinaciones[1])

\* C13: every assignment returned by acondicionamiento_cutset gives a value to every
\* variable of the CSP, whatever the number of components left outside the cutset
C13_Corte_Asigna_Todas ==
    (pc = "terminado" /\ solver = "Corte" /\ resultado.tipo = "dict")
        => DOMAIN resultado.asig = Rango(csp.variables)

\* C14: when ac3 with every arc in the queue returned True and is run again on the CSP
\* whose domains are the returned ones, the second run does not fail and removes no value
C14_AC3_Idempotente ==
    (solver = "AC3" /\ previo.solver = "AC3" /\ pc \in {"ac3", "ac3_ret", "terminado"})
        => (exito # "False" /\ dominios = dom0 /\ dom0 = csp.dominios)

\* ac3 is running or has just returned: dominios is its working dict
EnAC3 == pc \in {"ac3", "ac3_ret"} \/ (solver = "AC3" /\ pc = "terminado")

\* the complete assignments over the values of doms that make every restriction true
Soluciones(c, doms) ==
    {a \in [Rango(c.variables) -> UNION {Rango(c.dominios[v]) : v \in Rango(c.variables)}] :
        EsSolucion([c EXCEPT !.dominios = doms], a)}

\* C15: ac3 only takes values out of the domains, never a value that some solution of
\* the CSP gives to the variable; it reports failure only when the CSP has no solution,
\* and the solutions over its domains are the solutions over the domains of the CSP
C15_AC3_Conserva_Soluciones ==
    EnAC3 =>
        /\ \A v \in Rango(csp.variables) : Rango(dominios[v]) \subseteq Rango(csp.dominios[v])
        /\ \A a \in Soluciones(csp, csp.dominios) :
              \A v \in Rango(csp.variables) : a[v] \in Rango(dominios[v])
        /\ exito = "False" => Soluciones(csp, csp.dominios) = {}
        /\ Soluciones(csp, dominios) = Soluciones(csp, csp.dominios)

\* ac3 called on its own returned True after removing a value from a CSP with a solution
C15_Testigo ==
    /\ solver = "AC3" /\ pc = "terminado" /\ exito = "True"
    /\ \E v \in Rango(csp.variables) : Len(dominios[v]) < Len(csp.dominios[v])
    /\ Soluciones(csp, csp.dominios) # {}

\* every value of doms[xi] has a value of doms[xj] with which the restriction r between
\* the two variables is true
ArcoConsistente(r, xi, xj, doms) ==
    \A ka \in 1 .. Len(doms[xi]) : \E kb \in 1 .. Len(doms[xj]) :
        Cumple(r, [i \in 1 .. 2 |-> IF r.vars[i] = xi THEN doms[xi][ka] ELSE doms[xj][kb]])

\* C16: when ac3 called with every arc on a CSP without empty domain returns True, no
\* returned domain is empty and every value of a variable has, for each binary
\* restriction on the variable, a supporting value in the domain of the other variable
C16_AC3_Arco_Consistente ==
    (solver = "AC3" /\ pc = "terminado" /\ exito = "True"
        /\ \A v \in Rango(csp.variables) : csp.dominios[v] # << >>)
        => /\ \A v \in Rango(csp.variables) : dominios[v] # << >>
           /\ \A k \in 1 .. Len(csp.restricciones) :
                 LET r == csp.restricciones[k]
                 IN /\ ArcoConsistente(r, r.vars[1], r.vars[2], dominios)
                    /\ ArcoConsistente(r, r.vars[2], r.vars[1], dominios)

\* ac3(problema) has returned, problema being ProblemaReinas(4)
AC3_Reinas_Devuelto ==
    solver = "AC3" /\ pc = "terminado" /\ csp = ProblemaReinas(NReinas)

\* C17 as stated: ac3 with every arc on ProblemaReinas(4) does not fail and returns
\* domains in which some variable has fewer than its 4 values
C17_Reinas_Con_Poda ==
    AC3_Reinas_Devuelto =>
        /\ exito = "True"
        /\ \E v \in Rango(csp.variables) : Len(dominios[v]) < NReinas

\* C17 amended: ac3 with every arc on ProblemaReinas(4) does not fail and returns every
\* domain with its 4 values, in their order
C17_Reinas_Sin_Poda ==
    AC3_Reinas_Devuelto =>
        /\ exito = "True"
        /\ \A v \in Rango(csp.variables) : dominios[v] = [i \in 1 .. NReinas |-> i - 1]

\* ac3 returned on the board of 4 queens after revising its 12 arcs
C17_Testigo ==
    /\ AC3_Reinas_Devuelto
    /\ Len(CalcularArcos(csp)) = 12 /\ cola = << >>
    /\ exito = "True"

\* SolucionadorBacktracking(ProblemaReinas(4)).resolver() has returned
BT_Reinas_Devuelto ==
    solver = "BT" /\ pc = "terminado" /\ csp = ProblemaReinas(NReinas)

\* C18: SolucionadorBacktracking.resolver on ProblemaReinas(4) returns a row for each of
\* the 4 queens, no two queens in one row or on one diagonal, after at most 4 retrocesos
C18_Reinas_BT ==
    BT_Reinas_Devuelto =>
        /\ resultado.tipo = "dict"
        /\ DOMAIN resultado.asig = 1 .. NReinas
        /\ \A q \in 1 .. NReinas : resultado.asig[q] \in 0 .. NReinas - 1
        /\ \A q1, q2 \in 1 .. NReinas :
              q1 < q2 => /\ resultado.asig[q1] # resultado.asig[q2]
                         /\ Abs(resultado.asig[q1] - resultado.asig[q2]) # q2 - q1
        /\ retrocesos <= 4

\* the search on the board of 4 queens went back 4 times and returned rows 1, 3, 0, 2
C18_Testigo ==
    /\ BT_Reinas_Devuelto
    /\ retrocesos = 4
    /\ resultado = ResDict(<<1, 3, 0, 2>>)

\* C19: on a CSP without variables SolucionadorBacktracking, SolucionadorForwardChecking,
\* SolucionadorMAC, SolucionadorBackjumping, min_conflicts (whatever max_pasos is, 0
\* included) and acondicionamiento_cutset all return the empty dict, not None
C19_Sin_Variables ==
    (pc = "terminado" /\ csp.variables = << >>
        /\ solver \in {"BT", "FC", "MAC", "BJ", "MinConf", "Corte"})
        => resultado = ResDict(DictVacio)

\* C20: CSP(...) raises when a key of restricciones names a variable that is not in
\* variables or when a domain is empty, so the CSP object a resolver works on (which no
\* resolver changes) has every scope within its variables and no empty domain
C20_Construccion_Valida ==
    /\ \A k \in 1 .. Len(csp.restricciones) :
          Rango(csp.restricciones[k].vars) \subseteq Rango(csp.variables)
    /\ \A v \in Rango(csp.variables) : csp.dominios[v] # << >>

\* C21: a step of the while loop of ac3 on the arc (xi, xj). When it removed a value
\* and emptied the domain of xi, ac3 returns False there; when it removed a value and
\* left some, the queue is the rest of the queue followed by the arcs (xk, xi), once
\* each, for the neighbours xk of xi other than xj; when it removed nothing the queue
\* is the rest of the queue. After a failure no further arc is revised
C21_Reencolado ==
    [][
        /\ (pc = "ac3" /\ cola # << >>) =>
              LET xi == cola[1][1]
                  xj == cola[1][2]
                  nuevos == SubSeq(cola', Len(cola), Len(cola'))
                  esperados == {<<xk, xi>> : xk \in csp.vecinos[xi] \ {xj}}
              IN /\ (\A v \in Rango(csp.variables) \ {xi} : dominios'[v] = dominios[v])
                 /\ (dominios'[xi] # dominios[xi] /\ dominios'[xi] = << >>)
                       => (pc' = "ac3_ret" /\ exito' = "False")
                 /\ (dominios'[xi] # dominios[xi] /\ dominios'[xi] # << >>)
                       => /\ pc' = "ac3" /\ exito' = exito
                          /\ SubSeq(cola', 1, Len(cola) - 1) = Tail(cola)
                          /\ Rango(nuevos) = esperados
                          /\ Len(nuevos) = Cardinality(esperados)
                 /\ (dominios'[xi] = dominios[xi])
                       => (pc' = "ac3" /\ exito' = exito /\ cola' = Tail(cola))
        /\ (pc = "ac3_ret" /\ exito = "False") => (dominios' = dominios \/ pc' = "inactivo")
    ]_vars

\* ac3 called on its own removed a value without emptying a domain and the queue is
\* not shorter than the one it started with: arcs were appended
C21_Testigo ==
    /\ solver = "AC3" /\ pc = "ac3"
    /\ \E v \in Rango(csp.variables) : Len(dominios[v]) < Len(csp.dominios[v])
    /\ \A v \in Rango(csp.variables) : dominios[v] # << >>
    /\ Len(cola) >= Len(CalcularArcos(csp))
    /\ cola # << >>

\* every restriction of c keyed (x, y) or (y, x) is true of x = a, y = b
CumpleEntre(c, x, a, y, b) ==
    \A k \in 1 .. Len(c.restricciones) :
        LET r == c.restricciones[k]
        IN /\ r.vars = <<x, y>> => Cumple(r, <<a, b>>)
           /\ r.vars = <<y, x>> => Cumple(r, <<b, a>>)

\* C22: a step of ac3 on the arc (xi, xj) leaves in the domain of xi only values that
\* have a value of xj with which every restriction between the two variables, under
\* the key (xi, xj) and under the key (xj, xi), is true; and es_consistente_binaria
\* gives the same answer whichever of the two variables comes first
C22_Revisar_Todas ==
    [][
        (pc = "ac3" /\ cola # << >>) =>
            LET xi == cola[1][1]
                xj == cola[1][2]
            IN /\ \A ka \in 1 .. Len(dominios'[xi]) : \E kb \in 1 .. Len(dominios[xj]) :
                     CumpleEntre(csp, xi, dominios'[xi][ka], xj, dominios[xj][kb])
               /\ \A ka \in 1 .. Len(dominios[xi]) : \A kb \in 1 .. Len(dominios[xj]) :
                     EsConsistenteBinaria(csp, xi, dominios[xi][ka], xj, dominios[xj][kb])
                         = EsConsistenteBinaria(csp, xj, dominios[xj][kb], xi, dominios[xi][ka])
    ]_vars

\* C23: in SolucionadorMAC every recursive call of _backtrack, made after var = valor
\* in the calling frame, received domains that are within the domains of the calling
\* frame, hold exactly [valor] for var, and hold for each neighbour of var that was
\* unassigned only values compatible with valor
C23_MAC_Dominios_De_La_Rama ==
    (solver = "MAC" /\ pc \in {"bucle", "retorno", "ac3", "ac3_ret"}) =>
        \A k \in 2 .. Len(pila) :
            LET padre == pila[k - 1]
                var == padre.var
                valor == padre.valores[padre.i]
                asignadas == {pila[j].var : j \in 1 .. k - 1}
                recibidos == pila[k].dominios
            IN /\ \A v \in Rango(csp.variables) :
                     Rango(recibidos[v]) \subseteq Rango(padre.dominios[v])
               /\ recibidos[var] = <<valor>>
               /\ \A n \in csp.vecinos[var] \ asignadas :
                     \A kb \in 1 .. Len(recibidos[n]) :
                         CumpleEntre(csp, var, valor, n, recibidos[n][kb])

\* _forward_check for var = valor (both in a) leaves some unassigned neighbour of var
\* without a value in doms
PodaVacia(var, a, doms) ==
    \E n \in csp.vecinos[var] \ DOMAIN a :
        \A kb \in 1 .. Len(doms[n]) : ~EsConsistente(csp, n, doms[n][kb], Poner(a, n, doms[n][kb]))

\* C24: in SolucionadorForwardChecking._backtrack, when the pruning for a consistent
\* var = valor empties the domain of an unassigned neighbour no frame is added and the
\* frame is as it was; then var is unassigned and the loop goes on with the next value
\* of the same frame; and no step ever changes the domains a frame received
C24_FC_Vaciado ==
    [][
        /\ (solver = "FC" /\ pc = "bucle" /\ Cima.i <= Len(Cima.valores)
               /\ EsConsistente(csp, Cima.var, Cima.valores[Cima.i], asignacion)
               /\ PodaVacia(Cima.var, Poner(asignacion, Cima.var, Cima.valores[Cima.i]),
                            Cima.dominios))
              => /\ pila' = pila
                 /\ pc' = "retorno"
                 /\ asignacion' = Poner(asignacion, Cima.var, Cima.valores[Cima.i])
        /\ (solver = "FC" /\ pc = "retorno")
              => /\ asignacion' = Quitar(asignacion, Cima.var)
                 /\ pila' = ConCima([Cima EXCEPT !.i = @ + 1])
                 /\ pc' = "bucle"
        /\ (solver = "FC" /\ solver' = "FC")
              => \A k \in 1 .. Len(pila) :
                    k <= Len(pila') => /\ pila'[k].dominios = pila[k].dominios
                                       /\ pila'[k].valores = pila[k].valores
                                       /\ pila'[k].var = pila[k].var
    ]_vars

\* the pruning after a consistent assignment has just emptied a neighbour's domain, in
\* a call below the root
C24_Testigo ==
    /\ solver = "FC" /\ pc = "retorno"
    /\ Len(pila) >= 2
    /\ Cima.var \in DOMAIN asignacion
    /\ PodaVacia(Cima.var, asignacion, Cima.dominios)

\* C25: a conflict set returned by a call of _backjump, whether built by the call or
\* handed on by a jump, holds only variables that are assigned when it is returned and
\* not the variable of the call that built it; the outermost call returns no conflict
\* set, so resolver returns a complete assignment or None
C25_Conflictos_Asignados ==
    /\ (solver = "BJ" /\ pc = "retorno" /\ ret.tipo = "set")
          => /\ ret.conj \subseteq DOMAIN asignacion
             /\ ret.de \notin ret.conj
             /\ ret.conj # {}
    /\ (solver = "BJ" /\ pc = "terminado")
          => /\ resultado.tipo \in {"dict", "None"}
             /\ resultado.tipo = "dict" => DOMAIN resultado.asig = Rango(csp.variables)

\* a conflict set with two variables was handed on by a jump
C25_Testigo ==
    /\ solver = "BJ" /\ pc = "retorno" /\ ret.tipo = "set"
    /\ saltos > 0
    /\ Cardinality(ret.conj) >= 2

\* the assignment made by the first n frames of the stack: each frame's variable with
\* the value its loop is at
AsignacionDeMarcos(n) ==
    [v \in {pila[j].var : j \in 1 .. n} |->
        LET j == CHOOSE j \in 1 .. n : pila[j].var = v
        IN pila[j].valores[pila[j].i]]

RecursivosConPila == {"BT", "Mejorado", "FC", "MAC", "BJ"}

\* C26: in the five recursive solvers, when a call of _backtrack / _backjump has
\* returned a failure (or a value was rejected by the pruning) asignacion holds the
\* choices of the calls still running and nothing else, that is what it held when the
\* returning call was entered; between two iterations of the loop of a call it holds
\* the choices of the calls above it; and it is empty when resolver returns None
C26_Asignacion_Restaurada ==
    /\ (solver \in RecursivosConPila /\ pc = "retorno")
          => asignacion = AsignacionDeMarcos(Len(pila))
    /\ (solver \in RecursivosConPila /\ pc = "bucle")
          => asignacion = AsignacionDeMarcos(Len(pila) - 1)
    /\ (solver \in RecursivosConPila /\ pc = "terminado" /\ resultado.tipo = "None")
          => asignacion = DictVacio

\* a jump of the backjumping solver has just handed the conflict set of a variable
\* two levels down to a call that still holds an assignment
C26_Testigo ==
    /\ solver = "BJ" /\ pc = "retorno" /\ saltos > 0
    /\ ret.tipo = "set" /\ ret.de > Cima.var + 1
    /\ asignacion # DictVacio

\* the length of the queue the running call of ac3 started with: every arc, or inside
\* SolucionadorMAC._backtrack the arcs (vecino, var) of the unassigned neighbours
ColaInicial ==
    IF solver = "MAC" /\ pila # << >>
       THEN Cardinality(csp.vecinos[Cima.var] \ DOMAIN asignacion)
       ELSE Len(CalcularArcos(csp))

\* the number of values in the lists of doms
TotalValores(doms) ==
    SumarSeq([k \in 1 .. Len(csp.variables) |-> Len(doms[csp.variables[k]])])

\* the largest number of neighbours of a variable
MaxVecinos ==
    IF csp.variables = << >> THEN 0
    ELSE LET n == CHOOSE v \in Rango(csp.variables) :
                     \A w \in Rango(csp.variables) :
                         Cardinality(csp.vecinos[w]) <= Cardinality(csp.vecinos[v])
         IN Cardinality(csp.vecinos[n])

\* the arcs popped and the arcs still queued are at most the initial queue plus one
\* arc per neighbour for each value removed so far
C27_Cota ==
    EnAC3 =>
        /\ revisiones + Len(cola)
              <= ColaInicial + (TotalValores(csp.dominios) - TotalValores(dominios)) * MaxVecinos
        /\ revisiones <= ColaInicial + TotalValores(csp.dominios) * MaxVecinos

\* C27: every call of ac3 ends, after at most (length of the initial queue) + (number
\* of domain values) * (largest number of neighbours) iterations of its loop
C27_AC3_Termina ==
    /\ []C27_Cota
    /\ (pc = "ac3") ~> (pc = "ac3_ret")

\* ac3 called on its own ended after revising more arcs than it started with
C27_Testigo ==
    /\ solver = "AC3" /\ pc = "terminado"
    /\ revisiones > Len(CalcularArcos(csp))

\* what C28 says of the call of _backtrack that made frame k: a is the assignment it
\* was entered with
EntradaFiltrada(k) ==
    LET a == AsignacionDeMarcos(k - 1)
        doms == pila[k].dominios
    IN \A u \in Rango(csp.variables) \ DOMAIN a :
          /\ doms[u] # << >>
          /\ Rango(doms[u]) \subseteq Rango(csp.dominios[u])
          /\ \A kv \in 1 .. Len(doms[u]) : EsConsistente(csp, u, doms[u][kv], a)

\* C28 as stated: in SolucionadorForwardChecking every call of _backtrack below the
\* root receives domains in which each unassigned variable has a value, only values
\* of its original domain, and only values consistent with the assignment so far
C28_FC_Entrada ==
    (solver = "FC" /\ pc \in {"bucle", "retorno"}) =>
        \A k \in 2 .. Len(pila) : EntradaFiltrada(k)

\* C28 amended: the same, for a CSP in which every restriction is over two variables
\* or more
C28_FC_Entrada_SinUnarias ==
    (solver = "FC" /\ pc \in {"bucle", "retorno"}
        /\ \A j \in 1 .. Len(csp.restricciones) : Len(csp.restricciones[j].vars) >= 2) =>
        \A k \in 2 .. Len(pila) : EntradaFiltrada(k)

\* a call two levels below the root is running after the pruning removed a value from
\* the domain it received for its variable
C28_Testigo ==
    /\ solver = "FC" /\ pc = "bucle" /\ Len(pila) = 3
    /\ \A j \in 1 .. Len(csp.restricciones) : Len(csp.restricciones[j].vars) >= 2
    /\ Len(Cima.dominios[Cima.var]) < Len(csp.dominios[Cima.var])

\* the number of restrictions the complete assignment a violates
TotalViolaciones(c, a) ==
    Cardinality({k \in 1 .. Len(c.restricciones) :
        LET r == c.restricciones[k]
        IN /\ Rango(r.vars) \subseteq DOMAIN a
           /\ ~Cumple(r, [i \in 1 .. Len(r.vars) |-> a[r.vars[i]]])})

\* var occurs in a restriction that a violates
EnRestriccionViolada(c, var, a) ==
    \E k \in 1 .. Len(c.restricciones) :
        LET r == c.restricciones[k]
        IN /\ var \in Rango(r.vars)
           /\ Rango(r.vars) \subseteq DOMAIN a
           /\ ~Cumple(r, [i \in 1 .. Len(r.vars) |-> a[r.vars[i]]])

\* C29: every iteration of min_conflicts that reassigns gives a variable occurring in
\* a violated restriction a value of its domain with the least contar_conflictos, and
\* the number of violated restrictions of the assignment does not grow
C29_No_Aumenta ==
    [][
        (solver = "MinConf" /\ pc = "mc" /\ paso' = paso + 1) =>
            (/\ \E var \in Rango(csp.variables) :
                    /\ EnRestriccionViolada(csp, var, asignacion)
                    /\ asignacion' = [asignacion EXCEPT ![var] = asignacion'[var]]
                    /\ asignacion'[var] \in Rango(csp.dominios[var])
                    /\ \A k \in 1 .. Len(csp.dominios[var]) :
                           ContarConflictos(csp, var, asignacion'[var], asignacion)
                               <= ContarConflictos(csp, var, csp.dominios[var][k], asignacion)
             /\ TotalViolaciones(csp, asignacion') <= TotalViolaciones(csp, asignacion))
    ]_vars

\* min_conflicts has reassigned twice and the assignment still violates a restriction
C29_Testigo ==
    /\ solver = "MinConf" /\ pc = "mc" /\ paso = 2
    /\ TotalViolaciones(csp, asignacion) > 0

\* C30: whenever min_conflicts (or min_conflicts_con_estadisticas) returns None, the
\* complete assignment it holds at that moment violates at least one restriction
C30_None_Con_Conflicto ==
    (solver \in {"MinConf", "MinConfEst"} /\ pc = "terminado" /\ resultado.tipo = "None") =>
        TotalViolaciones(csp, asignacion) > 0

====
